---- MODULE Spec2Model ----
(***************************************************************************)
(* Model of update_status.py: one reconciliation run (Monitor.update) over *)
(* the monitors returned by UptimeRobot, pushing component status and      *)
(* response-time metric points to a Cachet status page.                    *)
(*                                                                         *)
(* The status page (components, metric points) is the only state that      *)
(* survives a run.  Every HTTP exchange is one step, and each one may      *)
(* raise.  The entries of the monitor list are drawn when the loop reaches *)
(* them: an entry is read by its own iteration only.                       *)
(***************************************************************************)
EXTENDS Integers, Sequences, FiniteSets, TLC

\* ------------------------------------------------------------- bounds
MaxMonitors == 2      \* length of the 'monitors' list of one response
MaxSamples == 2       \* response_times entries of one monitor
MaxTime == 2          \* largest unix time of the model
PerPage == 2          \* metric points on one page of the status page
DayLen == 2           \* unix-time units in one calendar day

\* ------------------------------------------------- program constants
UPTIME_ROBOT_PAUSED == 0
UPTIME_ROBOT_NOT_CHECKED_YET == 1
UPTIME_ROBOT_UP == 2
UPTIME_ROBOT_SEEMS_DOWN == 8
UPTIME_ROBOT_DOWN == 9
CACHET_OPERATIONAL == 1
CACHET_PERFORMANCE_ISSUES == 2
CACHET_SEEMS_DOWN == 3
CACHET_DOWN == 4

None == -1            \* Python's None, where an integer may stand

\* A provider code the program does not know.
UnknownCode == 5
Codes ==
  {UPTIME_ROBOT_PAUSED, UPTIME_ROBOT_NOT_CHECKED_YET, UPTIME_ROBOT_UP,
   UPTIME_ROBOT_SEEMS_DOWN, UPTIME_ROBOT_DOWN, UnknownCode}
CachetStatuses ==
  {CACHET_OPERATIONAL, CACHET_PERFORMANCE_ISSUES, CACHET_SEEMS_DOWN, CACHET_DOWN}

Times == 1..MaxTime
Clock == 0..MaxTime
\* Offset of the host's local time from UTC, in model time units.
TzOffsets == {-1, 0, 1}

\* ---------------------------------------------------------- helpers
RECURSIVE SeqsOfLen(_, _)
SeqsOfLen(S, n) ==
  IF n = 0 THEN {<<>>}
  ELSE {Append(s, x) : s \in SeqsOfLen(S, n - 1), x \in S}

SeqsUpTo(S, n) == UNION {SeqsOfLen(S, k) : k \in 0..n}

\* ------------------------------------------------------ configuration
\* monitor_list as parse_config builds it: one route per section, keyed by
\* the monitor's URL; a missing MetricId / ComponentId is None.
monitor_list ==
  [u \in {"a", "b", "c", "d"} |->
     CASE u = "a" -> [component_id |-> 1,    metric_id |-> 1]
       [] u = "b" -> [component_id |-> 2,    metric_id |-> None]
       [] u = "c" -> [component_id |-> None, metric_id |-> 1]
       [] u = "d" -> [component_id |-> None, metric_id |-> None]]

Urls == {"a", "b", "c", "d", "x"}
ComponentIds == {1, 2}

\* website_config.get(key): a truthy identifier.
HasId(id) == id # None

\* ------------------------------------------------- dates and samples
\* A 'Y-m-d H:M:S' string: the calendar date and the time of day.
DateStr(d, s) == [date |-> d, time |-> s]

\* The status page renders a point's timestamp in the request's Time-Zone
\* (Etc/UTC).
FormatUTC(t) == DateStr(t \div DayLen, t % DayLen)

\* datetime.strptime(...).replace(tzinfo=utc).timestamp(), as an int.
_date_str_to_unixtime(date_str) == date_str.date * DayLen + date_str.time

\* Order of the naive datetimes strptime yields.
DateLeq(x, y) == x.date < y.date \/ (x.date = y.date /\ x.time <= y.time)

\* datetime.now().date().strftime(CACHETHQ_DATE_FORMAT): the host's local
\* calendar date, at 00:00:00.
TodayStr(now, off) == DateStr((now + off) \div DayLen, 0)

MkSamples(ts) == [i \in 1..Len(ts) |-> [datetime |-> ts[i], value |-> i]]
MkPoints(ts) == [i \in 1..Len(ts) |-> [created_at |-> FormatUTC(ts[i])]]

AllSampleLists == {MkSamples(ts) : ts \in SeqsUpTo(Times, MaxSamples)}
SmallSampleLists == {MkSamples(<<>>), MkSamples(<<2, 1>>)}
AllStores == {MkPoints(ts) : ts \in SeqsUpTo(Times, PerPage + 1)}
SmallStores == {MkPoints(<<>>), MkPoints(<<1>>)}

MonitorRec(u, st, rts) == [url |-> u, status |-> st, response_times |-> rts]
NoMonitor == MonitorRec("", None, <<>>)
Monitors == {MonitorRec(u, st, rts) : u \in Urls, st \in Codes, rts \in SmallSampleLists}
MetricMonitors ==
  {MonitorRec(u, st, rts) : u \in {"a"}, st \in {UPTIME_ROBOT_UP}, rts \in AllSampleLists}
\* Two samples out of order with distinct timestamps, two in order, and two with
\* the same timestamp.
RetrySampleLists ==
  {MkSamples(<<MaxTime, MaxTime - 1>>), MkSamples(<<MaxTime - 1, MaxTime>>),
   MkSamples(<<MaxTime, MaxTime>>)}
RetryMonitors ==
  {MonitorRec(u, st, rts) : u \in {"a"}, st \in {UPTIME_ROBOT_UP}, rts \in RetrySampleLists}

\* ------------------------------------------------------------- state
VARIABLES
  components,       \* status page: component id -> status
  points,           \* status page: created_at of the points of metric 1, in stored
                    \* order (a stored value is never read back)
  pc,               \* position of the run
  stat,             \* 'stat' of the provider's response ("none" before the fetch)
  remaining,        \* entries of 'monitors' the loop has not reached yet
  monitor,          \* the loop variable
  component_status, \* update_component's target
  last_page,        \* get_last_metric_point: total_pages of the first response
  latest_metric,    \* created_at of the point get_last_metric_point returned
  unixtime,         \* sync_metric's cutoff
  response_times,   \* sync_metric: the selected samples not appended yet
  reqs,             \* status-page requests issued for the current monitor
  clock,            \* <<UTC now, local offset>> when datetime.now() was read
  storedMax,        \* created_at of the most recent point stored when the sync began
  error_logged,     \* logger.error was called in this run
  caught,           \* the except clause ran for the current monitor
  prior             \* history: the last sync an append of which raised

vars ==
  <<components, points, pc, stat, remaining, monitor, component_status, last_page,
    latest_metric, unixtime, response_times, reqs, clock, storedMax, error_logged,
    caught, prior>>

remote == <<components, points>>
locals ==
  <<component_status, last_page, latest_metric, unixtime, response_times, clock,
    storedMax>>
run == <<stat, remaining, error_logged, caught>>

NoDate == DateStr(None, None)
NoClock == <<None, None>>
Stats == {"ok", "fail", "absent"}

Req(method, kind, id, page, status, value, timestamp, ok) ==
  [method |-> method, kind |-> kind, id |-> id, page |-> page, status |-> status,
   value |-> value, timestamp |-> timestamp, ok |-> ok]

\* --------------------------------------------------- UptimeRobot
\* Variant: any stat that is present counts as success.
FetchAcceptsAnyStat(s) == s # "absent"
\* get_monitors: success is stat == 'ok'; a missing stat is falsy.
FetchSucceeded(s) == s # "absent" /\ s = "ok"

\* ------------------------------------------------------ CachetHq
\* Variant: 'seems down' mapped to CACHET_PERFORMANCE_ISSUES.
MapStatusDegraded(status) ==
  IF status \in {UPTIME_ROBOT_NOT_CHECKED_YET, UPTIME_ROBOT_UP} THEN CACHET_OPERATIONAL
  ELSE IF status = UPTIME_ROBOT_SEEMS_DOWN THEN CACHET_PERFORMANCE_ISSUES
  ELSE IF status = UPTIME_ROBOT_DOWN THEN CACHET_DOWN
  ELSE None
\* Variant: a paused monitor treated as operational.
MapStatusPaused(status) ==
  IF status \in {UPTIME_ROBOT_PAUSED, UPTIME_ROBOT_NOT_CHECKED_YET, UPTIME_ROBOT_UP}
  THEN CACHET_OPERATIONAL
  ELSE IF status = UPTIME_ROBOT_SEEMS_DOWN THEN CACHET_SEEMS_DOWN
  ELSE IF status = UPTIME_ROBOT_DOWN THEN CACHET_DOWN
  ELSE None
\* update_component: provider code -> component status, None when unmapped.
MapStatus(status) ==
  IF status \in {UPTIME_ROBOT_NOT_CHECKED_YET, UPTIME_ROBOT_UP} THEN CACHET_OPERATIONAL
  ELSE IF status = UPTIME_ROBOT_SEEMS_DOWN THEN CACHET_SEEMS_DOWN
  ELSE IF status = UPTIME_ROBOT_DOWN THEN CACHET_DOWN
  ELSE None

\* 'if component_status:'
Truthy(x) == x # None /\ x # 0

\* Variant: the PUT is issued whatever the component's status.
AlwaysWrite(current, target) == TRUE
\* update_component: the PUT is skipped when the component already has the target.
NeedsWrite(current, target) == current # target

\* The status page's paginator: total_pages is at least 1.
TotalPages(pts) ==
  IF Len(pts) = 0 THEN 1 ELSE (Len(pts) + PerPage - 1) \div PerPage

Page(pts, n) ==
  LET lo == (n - 1) * PerPage + 1
      hi == IF n * PerPage < Len(pts) THEN n * PerPage ELSE Len(pts)
  IN  IF lo < 1 \/ lo > hi THEN <<>> ELSE SubSeq(pts, lo, hi)

\* Variant: the last point of the page is taken for the latest.
LastIndex(data) == Len(data)
\* created_at_dates.index(max(created_at_dates))
MaxIndex(data) ==
  CHOOSE i \in 1..Len(data) :
    /\ \A j \in 1..Len(data) : DateLeq(data[j].created_at, data[i].created_at)
    /\ \A j \in 1..(i - 1) : data[j].created_at # data[i].created_at

\* The most recent created_at among all stored points, NoDate when there is none.
LatestStored(pts) ==
  IF pts = <<>> THEN NoDate
  ELSE LET i == CHOOSE k \in 1..Len(pts) :
                  \A j \in 1..Len(pts) : DateLeq(pts[j].created_at, pts[k].created_at)
       IN  pts[i].created_at

\* ------------------------------------------------------- Monitor
\* Variant: the comparison with the cutoff is >=.
RECURSIVE NotOlderThan(_, _)
NotOlderThan(rts, t) ==
  IF rts = <<>> THEN <<>>
  ELSE IF Head(rts).datetime >= t THEN <<Head(rts)>> \o NotOlderThan(Tail(rts), t)
  ELSE NotOlderThan(Tail(rts), t)
\* sync_metric: [x for x in response_times if x['datetime'] > unixtime]
RECURSIVE NewerThan(_, _)
NewerThan(rts, t) ==
  IF rts = <<>> THEN <<>>
  ELSE IF Head(rts).datetime > t THEN <<Head(rts)>> \o NewerThan(Tail(rts), t)
  ELSE NewerThan(Tail(rts), t)

\* list.sort(key=lambda x: x['datetime']): stable, ascending.
RECURSIVE Insert(_, _)
Insert(x, sorted) ==
  IF sorted = <<>> THEN <<x>>
  ELSE IF x.datetime < Head(sorted).datetime THEN <<x>> \o sorted
  ELSE <<Head(sorted)>> \o Insert(x, Tail(sorted))
\* Variant: the selected samples are appended in the order of the response.
Unsorted(rts) == rts
RECURSIVE SortByDatetime(_)
SortByDatetime(rts) ==
  IF rts = <<>> THEN <<>>
  ELSE Insert(rts[Len(rts)], SortByDatetime(SubSeq(rts, 1, Len(rts) - 1)))

\* Variant: the metric sync nested under the component branch.
AfterComponentNested(cfg) ==
  IF HasId(cfg.metric_id) /\ HasId(cfg.component_id) THEN "get_points" ELSE "loop"
\* send_data_to_cachet: where the monitor goes once the component half is over.
AfterComponent(cfg) == IF HasId(cfg.metric_id) THEN "get_points" ELSE "loop"

\* Variant: the PUT issued without reading the component first.
WriteWithoutRead == "put_component"
\* update_component: with a target, the first request is get_component.
FirstComponentStep == "get_component"

\* Variant: a failed component request is swallowed and the metric sync runs.
MetricAfterComponentError(cfg) == AfterComponent(cfg)
\* update_component: an exception of _request leaves update_component and
\* send_data_to_cachet, so 'if website_config.get('metric_id')' is not reached.
AfterComponentError(cfg) == "except"

\* Variant: the component is updated once the metric sync is over.
ComponentAfterSync(cfg) == IF HasId(cfg.component_id) THEN "get_component" ELSE "loop"
\* send_data_to_cachet: sync_metric is its last statement.
AfterSync(cfg) == "loop"

\* Variant: every monitor of the response is taken as tracked.
EveryMonitorListed(m) == TRUE
\* update: 'if monitor['url'] in self.monitor_list'
InMonitorList(m) == m.url \in DOMAIN monitor_list

\* Variant: a bare 'except:', which stops SystemExit too.
CatchesAll(exc) == TRUE
\* update: 'except Exception' stops the subclasses of Exception; SystemExit is
\* not one of them.
Catches(exc) == exc = "Exception"

\* _get_website_config: the route of the monitor, or, on KeyError, logger.error
\* and sys.exit(1), which raises SystemExit.
_get_website_config(m) ==
  IF m.url \in DOMAIN monitor_list
  THEN [raises |-> "", config |-> monitor_list[m.url]]
  ELSE [raises |-> "SystemExit", config |-> [component_id |-> None, metric_id |-> None]]

\* Variant: the exception of a monitor leaves update().
PropagateException == "raised"
\* update: 'except Exception' logs and the loop goes on.
AfterException == "loop"

\* Variant: update() swallows the exception of the fetch and returns.
TransportHandled == "done"
\* get_monitors: an exception of urlopen leaves update() uncaught.
AfterTransportFailure == "raised"

\* ------------------------------------------------------- history
\* The sync that was cut short by a failed append: the samples of the monitor,
\* the selected samples it left unappended (the one that failed first), and the
\* timestamp of its last accepted append (None when the first append failed).
\* age 1: recorded in the current run; age 2: recorded in the run before.
\* Only specifications that start with on = TRUE keep the record.
PriorRec(on, age, samples, left, top) ==
  [on |-> on, age |-> age, samples |-> samples, left |-> left, top |-> top]
PriorOff == PriorRec(FALSE, 0, <<>>, <<>>, None)
NoPrior == PriorRec(TRUE, 0, <<>>, <<>>, None)

\* ----------------------------------------------------------- Init
ClearLocals ==
  /\ component_status' = None
  /\ last_page' = None
  /\ latest_metric' = NoDate
  /\ unixtime' = None
  /\ response_times' = <<>>
  /\ clock' = NoClock
  /\ storedMax' = NoDate

InitRun ==
  /\ pc = "start"
  /\ stat = "none"
  /\ remaining = 0
  /\ monitor = NoMonitor
  /\ component_status = None
  /\ last_page = None
  /\ latest_metric = NoDate
  /\ unixtime = None
  /\ response_times = <<>>
  /\ reqs = <<>>
  /\ clock = NoClock
  /\ storedMax = NoDate
  /\ error_logged = FALSE
  /\ caught = FALSE

Init ==
  /\ components \in [ComponentIds -> CachetStatuses]
  /\ points \in SmallStores
  /\ InitRun
  /\ prior = PriorOff

InitMetric ==
  /\ components = [c \in ComponentIds |-> CACHET_DOWN]
  /\ points \in AllStores
  /\ InitRun
  /\ prior = PriorOff

\* The runs of one monitor that has a metric, from an empty store or a store of
\* one point, with the history of the failed sync kept.
InitRetry ==
  /\ components = [c \in ComponentIds |-> CACHET_DOWN]
  /\ points \in SmallStores
  /\ InitRun
  /\ prior = NoPrior

\* send_data_to_cachet entered, under update()'s try, for any monitor the
\* provider can return: the route lookup is made whatever the url.
InitLookup ==
  /\ components \in [ComponentIds -> CachetStatuses]
  /\ points \in SmallStores
  /\ pc = "send"
  /\ stat = "ok"
  /\ remaining \in 0..MaxMonitors
  /\ monitor \in Monitors
  /\ component_status = None
  /\ last_page = None
  /\ latest_metric = NoDate
  /\ unixtime = None
  /\ response_times = <<>>
  /\ reqs = <<>>
  /\ clock = NoClock
  /\ storedMax = NoDate
  /\ error_logged = FALSE
  /\ caught = FALSE
  /\ prior = PriorOff

\* -------------------------------------------------------- actions
\* update: uptime_robot.get_monitors(response_times=1) and the branch on success.
GetMonitors ==
  /\ pc = "start"
  /\ \/ /\ stat' = "error"
        /\ pc' = AfterTransportFailure
        /\ UNCHANGED <<remaining, error_logged>>
     \/ \E s \in Stats, n \in 0..MaxMonitors :
          /\ stat' = s
          /\ remaining' = n
          /\ IF FetchSucceeded(s)
             THEN pc' = "loop" /\ UNCHANGED error_logged
             ELSE pc' = "done" /\ error_logged' = TRUE
  /\ UNCHANGED <<remote, monitor, locals, reqs, caught>>
  /\ UNCHANGED prior

\* Variant: the next entry is taken while a write of the current one is pending.
ReadyWhileBusy(p) == p \in {"loop", "put_component", "post"}
\* update: the for statement takes the next entry only when the body of the
\* previous iteration has returned or its exception has been handled.
ReadyForNext(p) == p = "loop"

\* update: 'for monitor in monitors' reaches the next entry; an entry whose url
\* is not in monitor_list is passed over.
NextMonitor(MS) ==
  /\ ReadyForNext(pc)
  /\ remaining > 0
  /\ \E m \in MS :
       /\ monitor' = m
       /\ pc' = IF InMonitorList(m) THEN "send" ELSE "loop"
  /\ remaining' = remaining - 1
  /\ reqs' = <<>>
  /\ caught' = FALSE
  /\ ClearLocals
  /\ UNCHANGED <<remote, stat, error_logged>>
  /\ UNCHANGED prior

\* update: the list is exhausted.
LoopEnd ==
  /\ pc = "loop"
  /\ remaining = 0
  /\ pc' = "done"
  /\ UNCHANGED <<remote, run, monitor, locals, reqs>>
  /\ UNCHANGED prior

\* send_data_to_cachet up to the first request; update_component's mapping.
SendData ==
  /\ pc = "send"
  /\ LET website_config == _get_website_config(monitor)
         cfg == website_config.config
         target == MapStatus(monitor.status)
     IN  IF website_config.raises # ""
         THEN /\ error_logged' = TRUE
              /\ pc' = IF Catches(website_config.raises) THEN "except" ELSE "exit"
              /\ UNCHANGED component_status
         ELSE /\ UNCHANGED error_logged
              /\ IF HasId(cfg.component_id)
                 THEN /\ component_status' = target
                      /\ pc' = IF Truthy(target) THEN FirstComponentStep
                               ELSE AfterComponent(cfg)
                 ELSE /\ pc' = AfterComponent(cfg)
                      /\ UNCHANGED component_status
  /\ UNCHANGED <<remote, stat, remaining, caught, monitor, last_page, latest_metric,
                 unixtime, response_times, reqs, clock, storedMax>>
  /\ UNCHANGED prior

\* update_component: get_component and the comparison with the target.
GetComponent ==
  /\ pc = "get_component"
  /\ LET cfg == monitor_list[monitor.url]
         id == cfg.component_id
     IN  \/ /\ reqs' = Append(reqs, Req("GET", "components", id, None, None, None, None, FALSE))
            /\ pc' = AfterComponentError(cfg)
         \/ /\ reqs' = Append(reqs, Req("GET", "components", id, None, components[id], None, None, TRUE))
            /\ pc' = IF NeedsWrite(components[id], component_status)
                     THEN "put_component"
                     ELSE AfterComponent(cfg)
  /\ UNCHANGED <<remote, run, monitor, locals>>
  /\ UNCHANGED prior

\* update_component: the PUT of the target status.
PutComponent ==
  /\ pc = "put_component"
  /\ LET cfg == monitor_list[monitor.url]
         id == cfg.component_id
     IN  \/ /\ reqs' = Append(reqs, Req("PUT", "components", id, None, component_status, None, None, FALSE))
            /\ pc' = AfterComponentError(cfg)
            /\ UNCHANGED components
         \/ /\ reqs' = Append(reqs, Req("PUT", "components", id, None, component_status, None, None, TRUE))
            /\ components' = [components EXCEPT ![id] = component_status]
            /\ pc' = AfterComponent(cfg)
  /\ UNCHANGED <<points, run, monitor, locals>>
  /\ UNCHANGED prior

\* get_last_metric_point: the first GET, read for meta.pagination.total_pages.
GetPoints ==
  /\ pc = "get_points"
  /\ LET id == monitor_list[monitor.url].metric_id
     IN  \/ /\ reqs' = Append(reqs, Req("GET", "points", id, None, None, None, None, FALSE))
            /\ pc' = "except"
            /\ UNCHANGED <<last_page, storedMax>>
         \/ /\ reqs' = Append(reqs, Req("GET", "points", id, None, None, None, None, TRUE))
            /\ last_page' = TotalPages(points)
            /\ storedMax' = LatestStored(points)
            /\ pc' = "get_page"
  /\ UNCHANGED <<remote, run, monitor, component_status, latest_metric, unixtime,
                 response_times, clock>>
  /\ UNCHANGED prior

\* get_last_metric_point: the GET of page last_page and the choice of the point;
\* then sync_metric up to its loop.
GetLastPage ==
  /\ pc = "get_page"
  /\ LET id == monitor_list[monitor.url].metric_id
         data == Page(points, last_page)
     IN  \/ /\ reqs' = Append(reqs, Req("GET", "points", id, last_page, None, None, None, FALSE))
            /\ pc' = "except"
            /\ UNCHANGED <<latest_metric, unixtime, response_times, clock>>
         \/ /\ reqs' = Append(reqs, Req("GET", "points", id, last_page, None, None, None, TRUE))
            /\ \E now \in Clock, off \in TzOffsets :
                 LET created_at == IF data # <<>> THEN data[MaxIndex(data)].created_at
                                   ELSE TodayStr(now, off)
                     cutoff == _date_str_to_unixtime(created_at)
                 IN  /\ clock' = IF data # <<>> THEN NoClock ELSE <<now, off>>
                     /\ latest_metric' = created_at
                     /\ unixtime' = cutoff
                     /\ response_times' =
                          SortByDatetime(NewerThan(monitor.response_times, cutoff))
            /\ pc' = "post"
  /\ UNCHANGED <<remote, run, monitor, component_status, last_page, storedMax>>
  /\ UNCHANGED prior

\* sync_metric: one set_data_metrics call of the loop.
SetDataMetrics ==
  /\ pc = "post"
  /\ response_times # <<>>
  /\ LET id == monitor_list[monitor.url].metric_id
         x == Head(response_times)
         appended == SelectSeq(reqs, LAMBDA r : r.method = "POST" /\ r.ok)
     IN  \/ /\ reqs' = Append(reqs, Req("POST", "points", id, None, None, x.value, x.datetime, FALSE))
            /\ pc' = "except"
            /\ prior' = IF prior.on
                        THEN PriorRec(TRUE, 1, monitor.response_times, response_times,
                                      IF appended = <<>> THEN None
                                      ELSE appended[Len(appended)].timestamp)
                        ELSE prior
            /\ UNCHANGED <<points, response_times>>
         \/ /\ reqs' = Append(reqs, Req("POST", "points", id, None, None, x.value, x.datetime, TRUE))
            /\ points' = Append(points, [created_at |-> FormatUTC(x.datetime)])
            /\ response_times' = Tail(response_times)
            /\ pc' = "post"
            /\ UNCHANGED prior
  /\ UNCHANGED <<components, run, monitor, component_status, last_page, latest_metric,
                 unixtime, clock, storedMax>>

\* sync_metric returns: every selected sample was appended.
SyncDone ==
  /\ pc = "post"
  /\ response_times = <<>>
  /\ pc' = AfterSync(monitor_list[monitor.url])
  /\ UNCHANGED <<remote, run, monitor, locals, reqs>>
  /\ UNCHANGED prior

\* update: the except clause around send_data_to_cachet.
HandleException ==
  /\ pc = "except"
  /\ caught' = TRUE
  /\ pc' = AfterException
  /\ UNCHANGED <<remote, stat, remaining, error_logged, monitor, locals, reqs>>
  /\ UNCHANGED prior

\* The next invocation of the program: nothing but the status page is kept.
Restart ==
  /\ pc \in {"done", "raised", "exit"}
  /\ pc' = "start"
  /\ stat' = "none"
  /\ remaining' = 0
  /\ monitor' = NoMonitor
  /\ reqs' = <<>>
  /\ error_logged' = FALSE
  /\ caught' = FALSE
  /\ prior' = IF prior.age = 1 THEN [prior EXCEPT !.age = 2]
              ELSE IF prior.age = 2 THEN NoPrior
              ELSE prior
  /\ ClearLocals
  /\ UNCHANGED remote

Run(MS) ==
  \/ GetMonitors
  \/ NextMonitor(MS)
  \/ LoopEnd
  \/ SendData
  \/ GetComponent
  \/ PutComponent
  \/ GetPoints
  \/ GetLastPage
  \/ SetDataMetrics
  \/ SyncDone
  \/ HandleException
  \/ Restart

Next == Run(Monitors)
NextMetric == Run(MetricMonitors)
NextRetry == Run(RetryMonitors)

Spec == Init /\ [][Next]_vars
SpecLookup == InitLookup /\ [][Next]_vars
SpecMetric == InitMetric /\ [][NextMetric]_vars
SpecRetry == InitRetry /\ [][NextRetry]_vars

\* ------------------------------------------------------------ claims
Tracked == monitor # NoMonitor /\ monitor.url \in DOMAIN monitor_list
Route == monitor_list[monitor.url]
IsReq(r, method, kind) == r.method = method /\ r.kind = kind
Puts == SelectSeq(reqs, LAMBDA r : IsReq(r, "PUT", "components"))
Posts == SelectSeq(reqs, LAMBDA r : IsReq(r, "POST", "points"))
ComponentReqs == SelectSeq(reqs, LAMBDA r : r.kind = "components")
\* send_data_to_cachet has returned for the current monitor without raising.
Finished == Tracked /\ pc \in {"loop", "done"} /\ ~caught

\* C1: a PUT is issued for a monitor only after a component read that returned a
\* status different from the target; when the status read equals the target,
\* no PUT is issued for that monitor.
C1_Idempotence ==
  /\ \A i \in 1..Len(reqs) :
       IsReq(reqs[i], "PUT", "components") =>
         \E j \in 1..(i - 1) :
           /\ IsReq(reqs[j], "GET", "components")
           /\ reqs[j].ok
           /\ reqs[j].id = reqs[i].id
           /\ reqs[j].status # reqs[i].status
  /\ \A j \in 1..Len(reqs) :
       (IsReq(reqs[j], "GET", "components") /\ reqs[j].ok
          /\ reqs[j].status = component_status) => Puts = <<>>

\* The component half ended on a read that found the target already set.
C1_Witness ==
  /\ Finished
  /\ HasId(Route.component_id)
  /\ Len(reqs) >= 1
  /\ IsReq(reqs[1], "GET", "components")
  /\ reqs[1].ok
  /\ reqs[1].status = component_status
  /\ Puts = <<>>

\* C2: a sync in which no append failed has issued one POST per sample newer
\* than the cutoff, none for a sample at or before it, in non-decreasing
\* timestamp order.
C2_Deduplication ==
  (Finished /\ latest_metric # NoDate) =>
    LET S == monitor.response_times
        sel == {i \in 1..Len(S) : S[i].datetime > unixtime}
    IN  /\ Len(Posts) = Cardinality(sel)
        /\ \A i \in 1..Len(S) :
             Cardinality({k \in 1..Len(Posts) :
                            /\ Posts[k].value = S[i].value
                            /\ Posts[k].timestamp = S[i].datetime
                            /\ Posts[k].ok})
               = IF i \in sel THEN 1 ELSE 0
        /\ \A k \in 1..(Len(Posts) - 1) : Posts[k].timestamp <= Posts[k + 1].timestamp

\* A finished sync of two samples given newest first, both after the cutoff and
\* appended oldest first.
C2_Witness ==
  /\ Finished
  /\ latest_metric # NoDate
  /\ Len(Posts) = 2
  /\ Posts[1].timestamp < Posts[2].timestamp
  /\ monitor.response_times[1].datetime > monitor.response_times[2].datetime

\* C3: an exception of one monitor is caught and the loop goes on: the run never
\* raises once the fetch has succeeded, it ends only when the list is exhausted,
\* and every monitor starts from a clean slate.
C3_FailureIsolation ==
  /\ pc = "raised" => stat = "error"
  /\ (pc = "done" /\ stat = "ok") => remaining = 0
  /\ pc = "except" => stat = "ok"
  /\ pc = "send" =>
       /\ reqs = <<>>
       /\ ~caught
       /\ component_status = None
       /\ latest_metric = NoDate
       /\ response_times = <<>>

\* A component write raised, the handler ran, and the loop still has a monitor
\* to process.
C3_Witness ==
  /\ pc = "loop"
  /\ caught
  /\ remaining > 0
  /\ Len(reqs) = 2
  /\ IsReq(reqs[2], "PUT", "components")
  /\ ~reqs[2].ok

\* C4: get_last_metric_point returns the point with the greatest created_at of
\* all stored points, whatever page it is on.
C4_GlobalLatest ==
  (pc = "post" /\ storedMax # NoDate) => latest_metric = storedMax

\* C5: no sync appends a point for a sample that is not newer than the most
\* recent point stored when that sync began.
C5_NoStalePoint ==
  \A k \in 1..Len(Posts) :
    (Posts[k].ok /\ storedMax # NoDate) =>
      ~DateLeq(FormatUTC(Posts[k].timestamp), storedMax)

\* C6: the target is decided by the provider code alone: 1 and 2 give 1, 8 gives
\* 3, 9 gives 4; a PUT carries exactly that status.
C6_StatusMapping ==
  (Tracked /\ HasId(Route.component_id) /\ pc # "send") =>
    LET expected == CASE monitor.status = 1 -> 1
                      [] monitor.status = 2 -> 1
                      [] monitor.status = 8 -> 3
                      [] monitor.status = 9 -> 4
                      [] OTHER -> component_status
    IN  /\ component_status = expected
        /\ \A k \in 1..Len(Puts) : Puts[k].status = expected

\* A monitor that seems down (8) whose component was operational: one PUT of 3.
C6_Witness ==
  /\ Finished
  /\ monitor.status = 8
  /\ Len(reqs) >= 2
  /\ IsReq(reqs[1], "GET", "components") /\ reqs[1].status = 1
  /\ IsReq(reqs[2], "PUT", "components") /\ reqs[2].status = 3 /\ reqs[2].ok

\* C7: a provider code other than 1, 2, 8, 9 yields no target, and no component
\* request (read or write) is made for that monitor.
C7_UnmappedCode ==
  (Tracked /\ HasId(Route.component_id) /\ pc # "send"
     /\ monitor.status \notin {1, 2, 8, 9}) =>
    /\ component_status = None
    /\ ComponentReqs = <<>>

\* A paused monitor of a route with a component and a metric has gone through
\* its metric sync without any component request.
C7_Witness ==
  /\ Finished
  /\ HasId(Route.component_id)
  /\ monitor.status = 0
  /\ reqs # <<>>
  /\ ComponentReqs = <<>>

\* C8: a response whose stat is not "ok", or is missing, ends the run: an error
\* is logged, no monitor is taken from the list and no status-page request is
\* issued.
C8_LogicalFailure ==
  stat \in {"fail", "absent"} =>
    /\ pc = "done"
    /\ error_logged
    /\ monitor = NoMonitor
    /\ reqs = <<>>
    /\ ~caught

\* The response had no stat, carried monitors, and the run is over.
C8_Witness ==
  /\ stat = "absent"
  /\ pc = "done"
  /\ remaining > 0
  /\ error_logged

\* C9, as stated: a transport failure of the fetch ends the run with an error
\* logged and no monitor processed.
C9_TransportLogged ==
  stat = "error" =>
    /\ pc \in {"done", "raised"}
    /\ error_logged
    /\ monitor = NoMonitor
    /\ reqs = <<>>

\* C9, amended: a transport failure of the fetch leaves update() as an uncaught
\* exception: nothing is logged, no monitor is processed, no status-page request
\* is issued; only the logical failure ends the run normally with an error
\* logged.
C9_TransportRaises ==
  /\ stat = "error" =>
       /\ pc = "raised"
       /\ ~error_logged
       /\ monitor = NoMonitor
       /\ reqs = <<>>
  /\ error_logged => (pc = "done" /\ stat \in {"fail", "absent"})

\* The fetch raised.
C9_Witness ==
  /\ stat = "error"
  /\ pc = "raised"

\* C10: for an empty metric the cutoff is the UTC midnight of the current day,
\* and a finished sync has appended exactly the samples after it.
C10_UtcMidnight ==
  clock # NoClock =>
    LET midnight == (clock[1] \div DayLen) * DayLen
        S == monitor.response_times
    IN  /\ unixtime = midnight
        /\ Finished =>
             Len(Posts) = Cardinality({i \in 1..Len(S) : S[i].datetime > midnight})

\* C11: a monitor whose url has no route is passed over: no status-page request
\* is issued for it, nothing is logged as an error or caught, and the loop is
\* where it was, ready for the next entry.
C11_UntrackedIgnored ==
  (monitor # NoMonitor /\ monitor.url \notin DOMAIN monitor_list) =>
    /\ pc \in {"loop", "done"}
    /\ reqs = <<>>
    /\ ~caught
    /\ ~error_logged
    /\ component_status = None
    /\ latest_metric = NoDate
    /\ pc = "done" => remaining = 0

\* An untracked monitor was passed over and the list has a further entry.
C11_Witness ==
  /\ monitor # NoMonitor
  /\ monitor.url = "x"
  /\ pc = "loop"
  /\ remaining > 0
  /\ reqs = <<>>

\* C16: the route lookup of a url that is not configured ends the process
\* (sys.exit(1)) after logging an error; the except clause of the loop never
\* runs for it, and no status-page request is issued.
C16_LookupExits ==
  /\ pc = "exit" =>
       /\ monitor.url \notin DOMAIN monitor_list
       /\ error_logged
       /\ ~caught
       /\ reqs = <<>>
  /\ (pc = "except" \/ caught) => monitor.url \in DOMAIN monitor_list
  /\ (monitor # NoMonitor /\ monitor.url \notin DOMAIN monitor_list /\ error_logged) =>
       pc = "exit"

\* The lookup of the unconfigured url "x" has ended the process.
C16_Witness ==
  /\ pc = "exit"
  /\ monitor.url = "x"
  /\ error_logged

PointsReqs == SelectSeq(reqs, LAMBDA r : r.kind = "points")
Mapped == monitor.status \in {1, 2, 8, 9}

\* C12: the two halves of a route are optional one by one: without a component
\* id no component request is issued, without a metric id no points request;
\* a monitor that was processed without raising has had its metric synced when
\* the route has a metric id, and its component read when the route has a
\* component id and the code is mapped; with neither id nothing is requested.
C12_IndependentHalves ==
  Tracked =>
    /\ ~HasId(Route.component_id) => ComponentReqs = <<>>
    /\ ~HasId(Route.metric_id) => PointsReqs = <<>>
    /\ (Finished /\ HasId(Route.metric_id)) =>
         /\ latest_metric # NoDate
         /\ Len(SelectSeq(PointsReqs, LAMBDA r : r.method = "GET" /\ r.ok)) = 2
    /\ (Finished /\ HasId(Route.component_id) /\ Mapped) =>
         \E i \in 1..Len(reqs) : IsReq(reqs[i], "GET", "components") /\ reqs[i].ok

\* The route with a metric and no component has had its metric synced.
C12_Witness ==
  /\ Finished
  /\ monitor.url = "c"
  /\ ComponentReqs = <<>>
  /\ Len(Posts) = 2

\* C13: for a monitor with a mapped code and a component id, the component half
\* issues exactly one read, as its first request; a PUT comes only second, after
\* a read that succeeded, and there is at most one.
C13_ReadBeforeWrite ==
  (Tracked /\ HasId(Route.component_id) /\ Mapped) =>
    IF pc \in {"send", "get_component"}
    THEN reqs = <<>>
    ELSE /\ Len(reqs) >= 1
         /\ IsReq(reqs[1], "GET", "components")
         /\ Cardinality({i \in 1..Len(reqs) : IsReq(reqs[i], "GET", "components")}) = 1
         /\ Len(Puts) <= 1
         /\ \A i \in 1..Len(reqs) :
              IsReq(reqs[i], "PUT", "components") => (i = 2 /\ reqs[1].ok)

\* A monitor that is down (9) whose component was operational: one read, then
\* one PUT of 4.
C13_Witness ==
  /\ Finished
  /\ monitor.status = 9
  /\ Len(ComponentReqs) = 2
  /\ IsReq(reqs[1], "GET", "components") /\ reqs[1].status = 1 /\ reqs[1].ok
  /\ IsReq(reqs[2], "PUT", "components") /\ reqs[2].status = 4 /\ reqs[2].ok

\* C14: within one monitor no component request comes after a points request.
C14_ComponentBeforeMetric ==
  /\ \A i, j \in 1..Len(reqs) :
       (i < j /\ reqs[i].kind = "points") => reqs[j].kind # "components"
  /\ pc \in {"get_component", "put_component"} => PointsReqs = <<>>

\* A route with both ids: the read and the PUT of the component, then the
\* points requests.
C14_Witness ==
  /\ Finished
  /\ monitor.url = "a"
  /\ Len(Puts) = 1
  /\ Len(PointsReqs) >= 2
  /\ reqs[Len(reqs)].kind = "points"

\* C19: once a component request of a monitor has raised, no points request is
\* issued for that monitor: the exception goes to the except clause of the loop.
C19_NoMetricAfterComponentError ==
  (\E i \in 1..Len(reqs) : reqs[i].kind = "components" /\ ~reqs[i].ok) =>
    /\ PointsReqs = <<>>
    /\ latest_metric = NoDate
    /\ pc \in {"except", "loop", "done"}
    /\ pc # "except" => caught
    /\ ~reqs[Len(reqs)].ok

\* The component read of a route that has a metric id raised, and the monitor
\* is over.
C19_Witness ==
  /\ pc = "loop"
  /\ caught
  /\ monitor.url = "a"
  /\ Len(reqs) = 1
  /\ IsReq(reqs[1], "GET", "components")
  /\ ~reqs[1].ok

InIteration ==
  pc \in {"send", "get_component", "put_component", "get_points", "get_page",
          "post", "except"}

\* C15: monitors are processed one at a time, in the order of the list: the
\* current monitor changes only between iterations, when the list position
\* advances by exactly one, and every request is issued for the current monitor
\* while the position stands still, so the requests of two monitors never
\* interleave.
C15_Sequential ==
  [][/\ InIteration => (monitor' = monitor /\ remaining' = remaining)
     /\ (monitor' # monitor /\ monitor' # NoMonitor) =>
          /\ pc = "loop"
          /\ remaining' = remaining - 1
          /\ reqs' = <<>>
     /\ (reqs' # reqs /\ reqs' # <<>>) =>
          /\ InIteration
          /\ Len(reqs') = Len(reqs) + 1
          /\ SubSeq(reqs', 1, Len(reqs)) = reqs
     /\ (pc = "loop" /\ pc' # "done") => remaining' = remaining - 1]_vars

\* A monitor whose requests are all over, the last one an append that was
\* accepted, with another entry of the list still to come.
C15_Witness ==
  /\ pc = "loop"
  /\ ~caught
  /\ remaining > 0
  /\ Len(reqs) >= 3
  /\ IsReq(reqs[Len(reqs)], "POST", "points")
  /\ reqs[Len(reqs)].ok

\* The page as get_last_metric_point read it: the points stored before the
\* appends of this sync.
OkPosts == SelectSeq(Posts, LAMBDA r : r.ok)
PageRead ==
  IF last_page = None THEN <<>>
  ELSE Page(SubSeq(points, 1, Len(points) - Len(OkPosts)), last_page)

\* C17: when the page numbered total_pages has points, the point returned is one
\* of that page and no point of the page has a greater created_at, in whatever
\* order the page lists them.
C17_PageMaximum ==
  (pc = "post" /\ PageRead # <<>>) =>
    /\ \E i \in 1..Len(PageRead) : PageRead[i].created_at = latest_metric
    /\ \A j \in 1..Len(PageRead) : DateLeq(PageRead[j].created_at, latest_metric)
    /\ unixtime = _date_str_to_unixtime(latest_metric)

\* A page of two points that lists the newer one first: the first is returned.
C17_Witness ==
  /\ pc = "post"
  /\ Len(PageRead) = 2
  /\ ~DateLeq(PageRead[1].created_at, PageRead[2].created_at)
  /\ latest_metric = PageRead[1].created_at

Sample(r) == [datetime |-> r.timestamp, value |-> r.value]
Range(f) == {f[i] : i \in DOMAIN f}
AppendedSet == {Sample(OkPosts[i]) : i \in 1..Len(OkPosts)}
SelectedSet == {x \in Range(monitor.response_times) : x.datetime > unixtime}

\* First half of C18: when an append raised, it is the last POST of the sync,
\* every POST before it was accepted, and the samples appended are selected
\* samples none of which is newer than a selected sample left unappended.
SmallestAppended ==
  (\E i \in 1..Len(Posts) : ~Posts[i].ok) =>
    /\ \A i \in 1..Len(Posts) : Posts[i].ok <=> i < Len(Posts)
    /\ AppendedSet \subseteq SelectedSet
    /\ Cardinality(AppendedSet) = Len(Posts) - 1
    /\ \A x \in AppendedSet, y \in SelectedSet \ AppendedSet : x.datetime <= y.datetime
    /\ pc \in {"except", "loop", "done"}

\* A sync of the run after the one whose sync was cut short, of the same
\* samples, whose cutoff is the greatest timestamp that sync appended, and that
\* went through.
FollowingSync ==
  /\ prior.age = 2
  /\ prior.top # None
  /\ Finished
  /\ latest_metric # NoDate
  /\ monitor.response_times = prior.samples
  /\ unixtime = prior.top

\* C18 as stated: the points appended by a sync that was cut short are the
\* smallest selected samples, and the following sync appends exactly the samples
\* that were left, each once.
C18_NoGap ==
  /\ SmallestAppended
  /\ FollowingSync =>
       /\ AppendedSet = Range(prior.left)
       /\ Len(OkPosts) = Len(prior.left)

\* C18, amended: the points appended by a sync that was cut short are the
\* smallest selected samples, and the following sync appends, each once, exactly
\* the samples left whose timestamp is greater than the greatest timestamp
\* appended: a sample left with that very timestamp is not appended.
C18_PartialSync ==
  /\ SmallestAppended
  /\ FollowingSync =>
       /\ AppendedSet = {x \in Range(prior.left) : x.datetime > prior.top}
       /\ Len(OkPosts) = Cardinality(AppendedSet)

\* The following sync appended the one sample the failed sync had left.
C18_Witness ==
  /\ FollowingSync
  /\ Len(prior.left) = 1
  /\ Len(OkPosts) = 1
  /\ Sample(OkPosts[1]) = prior.left[1]

====
